---- MODULE Spec2Model ----
(***************************************************************************)
(* Model of tui.py: the terminal front end of the live transcription /     *)
(* translation pipeline.  main() resolves the microphone, creates the two  *)
(* result queues and the stop event, starts the engine (core.start) with   *)
(* the callbacks on_success / on_failure / log_*_errors, and then polls    *)
(* the stop event.  on_success starts the daemon thread print_results that *)
(* renders both queues.                                                    *)
(*                                                                         *)
(* que.Queue and core are not part of the listed source.  The queue is     *)
(* modelled from its specified contract (FIFO, blocking get, None as the   *)
(* end marker); the engine is modelled as the environment that drives the  *)
(* callbacks and the pushes.  The truth value of a queue object            *)
(* (`if tsres_queue:`) depends on whether que.Queue defines __bool__ or    *)
(* __len__; both outcomes are kept (variable queue_truth).                 *)
(***************************************************************************)
EXTENDS Integers, Sequences, FiniteSets, TLC

\* ------------------------------------------------------------- bounds
\* Largest number of pushes (Segments and end marker together) per queue.
MaxPush == 2

\* ------------------------------------------------------- data values
\* The end marker: the engine pushes None, print_results tests `res is None`.
None == [kind |-> "none", done |-> "", curr |-> ""]

\* Pair(done, curr): the finalized and the pending text of one Segment.
Pair(done, curr) == [kind |-> "pair", done |-> done, curr |-> curr]

\* The Segments the engine may push in this model.
Segments ==
    { Pair("Hello ", "wor"), Pair("Hello world", "") }

\* The local variable res of print_results before any get().
NoRes == [kind |-> "unset", done |-> "", curr |-> ""]

\* An end test that never recognises the end marker.
IsNoneNever(r) == FALSE

\* An end test on the text (`if not res.curr`) instead of on None.
IsNoneLoose(r) == r.curr = ""

\* `res is None`
IsNone(r) == r = None

\* Render with the two parts in the wrong order.
RenderSwapped(r) == r.curr \o r.done

\* Render with the pending text forgotten.
RenderDoneOnly(r) == r.done

\* f"{res.done}{res.curr}": the text of a rendered line (without its tag).
Render(r) == r.done \o r.curr

\* ---------------------------------------------------------- que.Queue
\* Queue.put(item): append at the tail.
Put(q, item) == Append(q, item)

\* Queue.get(): the head; the caller is suspended while the queue is empty.
CanGet(q) == q # <<>>
GetItem(q) == Head(q)
GetRest(q) == Tail(q)

\* bool(queue): "len" when que.Queue defines __bool__/__len__ as non-empty,
\* "obj" when it defines neither (every object is then true).
Truth(mode, q) == IF mode = "len" THEN q # <<>> ELSE TRUE

\* ---------------------------------------------------- threading.Event
\* A set() that flips the flag instead of raising it.
EventToggle(ev) == ~ev

\* A set() that was left out: the flag keeps its value.
EventSetForgotten(ev) == ev

\* stop_event.set()
EventSet(ev) == TRUE

\* A consumer loop that never looks at the stop event.
LoopCondAlways(ev) == TRUE

\* `while not stop_event.is_set()`: the consumer loop continues.
LoopCond(ev) == ~ev

\* A controlling loop whose test is inverted.
PollBreakInverted(ev) == ~ev

\* `if stop_event.is_set(): break` of the controlling loop.
PollBreak(ev) == ev

\* A translation branch taken whatever the target.
TargetBranchAlways(t) == TRUE

\* `if args.target:` guards the translation branch.
TargetBranch(t) == t

VARIABLES
    target,        \* args.target is configured
    mic,           \* "unresolved" | "resolved" | "failed"
    queue_truth,   \* "len" | "obj": how bool(queue) is computed
    main_pc,       \* position of main()
    exit_status,   \* "none" | "zero" | "nonzero"
    alive,         \* the process has not yet exited
    created,       \* the queues and the stop event exist (lines 40-42)
    engine,        \* "idle" | "starting" | "running" | "failed"
    stop_event,    \* threading.Event flag
    interrupted,   \* the operator interrupt was delivered
    tsres_queue, tlres_queue,
    c_pc,          \* position of the print_results thread
    res,           \* its local variable res
    ts_out, tl_out,      \* lines printed with [Transcription] / [Translation]
    info_started, info_stopping,  \* the two [INFO] notices on stdout
    stderr,        \* the last diagnostic line that reached the real stderr
    \* history variables, used by the properties only
    ts_pushed, tl_pushed,   \* everything ever put on each queue
    ts_after, tl_after,     \* renders performed while stop_event was set
    tl_read,                \* tlres_queue was read (bool test or get)
    exit_cause,             \* why print_results left its loop
    pushed_late,            \* something was put on a queue after the event was set
    end_woke                \* "ts" | "tl": the end marker was put on that queue while
                            \* print_results was suspended in its get(); else "none"

vars == << target, mic, queue_truth, main_pc, exit_status, alive, created,
           engine, stop_event, interrupted, tsres_queue, tlres_queue, c_pc, res,
           ts_out, tl_out, info_started, info_stopping, stderr,
           ts_pushed, tl_pushed, ts_after, tl_after, tl_read, exit_cause, pushed_late,
           end_woke >>

mainVars == << main_pc, exit_status >>
queueVars == << tsres_queue, tlres_queue, ts_pushed, tl_pushed >>
consVars == << c_pc, res, ts_out, tl_out, ts_after, tl_after, tl_read, exit_cause >>
confVars == << target, queue_truth >>

Init ==
    /\ target \in BOOLEAN
    /\ mic = "unresolved"
    /\ queue_truth \in {"len", "obj"}
    /\ main_pc = "mic"
    /\ exit_status = "none"
    /\ alive = TRUE
    /\ created = FALSE
    /\ engine = "idle"
    /\ stop_event = FALSE
    /\ interrupted = FALSE
    /\ tsres_queue = <<>>
    /\ tlres_queue = <<>>
    /\ c_pc = "none"
    /\ res = NoRes
    /\ ts_out = <<>>
    /\ tl_out = <<>>
    /\ info_started = FALSE
    /\ info_stopping = FALSE
    /\ stderr = ""
    /\ ts_pushed = <<>>
    /\ tl_pushed = <<>>
    /\ ts_after = 0
    /\ tl_after = 0
    /\ tl_read = FALSE
    /\ exit_cause = "none"
    /\ pushed_late = FALSE
    /\ end_woke = "none"

\* SuppressALSA entered at the top of main() instead of around core.start.
SuppressedEarly == main_pc \in {"mic", "start", "poll", "wait"}

\* SuppressALSA: inside the with block sys.stderr is os.devnull.
Suppressed == main_pc \in {"poll", "wait"}

\* print(..., file=sys.stderr): the line reaches the terminal unless
\* sys.stderr is redirected at that moment.
ErrPrint(log, tag) == IF Suppressed THEN log ELSE tag

\* ------------------------------------------------------------- main()
\* Lines 31-38: with --mic given the name is resolved (core.get_mic_index);
\* if that raises, the diagnostic is printed and the process exits with 1.
MicResolve ==
    /\ alive /\ main_pc = "mic"
    /\ \E given \in BOOLEAN, found \in BOOLEAN :
         IF given /\ ~found
         THEN /\ mic' = "failed"
              /\ stderr' = ErrPrint(stderr, "mic_not_found")
              /\ main_pc' = "end"
              /\ exit_status' = "nonzero"
         ELSE /\ mic' = "resolved"
              /\ main_pc' = "start"
              /\ UNCHANGED << stderr, exit_status >>
    /\ UNCHANGED << confVars, alive, created, engine, stop_event, interrupted,
                    queueVars, consVars, info_started, info_stopping,
                    pushed_late, end_woke >>

\* Lines 40-84: queues and event are created, the engine is started.
Start ==
    /\ alive /\ main_pc = "start"
    /\ created' = TRUE
    /\ engine' = "starting"
    /\ main_pc' = "poll"
    /\ UNCHANGED << confVars, mic, exit_status, alive, stop_event, interrupted,
                    queueVars, consVars, info_started, info_stopping, stderr,
                    pushed_late, end_woke >>

\* Lines 86-88: one test of the stop event by the controlling loop.
Poll ==
    /\ alive /\ main_pc = "poll"
    /\ IF PollBreak(stop_event)
       THEN main_pc' = "end" /\ exit_status' = "zero"
       ELSE main_pc' = "wait" /\ UNCHANGED exit_status
    /\ UNCHANGED << confVars, mic, alive, created, engine, stop_event, interrupted,
                    queueVars, consVars, info_started, info_stopping, stderr,
                    pushed_late, end_woke >>

\* Line 89: the 0.1 s wait is over.
Wait ==
    /\ alive /\ main_pc = "wait"
    /\ main_pc' = "poll"
    /\ UNCHANGED << confVars, mic, exit_status, alive, created, engine, stop_event,
                    interrupted, queueVars, consVars, info_started,
                    info_stopping, stderr,
                    pushed_late, end_woke >>

\* The operator interrupt (KeyboardInterrupt in the main thread).  Inside the
\* try block (lines 85-92) it is caught: the notice is printed and the event
\* set; before the try block it is not caught and ends main() with a traceback.
Interrupt ==
    /\ alive /\ ~interrupted /\ main_pc # "end"
    /\ interrupted' = TRUE
    /\ main_pc' = "end"
    /\ IF main_pc \in {"poll", "wait"}
       THEN /\ info_stopping' = TRUE
            /\ stop_event' = EventSet(stop_event)
            /\ exit_status' = "zero"
       ELSE /\ exit_status' = "nonzero"
            /\ UNCHANGED << info_stopping, stop_event >>
    /\ UNCHANGED << confVars, mic, alive, created, engine, queueVars, consVars,
                    info_started, stderr, pushed_late, end_woke >>

\* Lines 94-95 and daemon=True (line 59): after main() has returned the
\* interpreter may exit; the daemon thread is then stopped where it stands
\* (every step of print_results and of the engine requires alive).
ProcessExit ==
    /\ alive /\ main_pc = "end"
    /\ alive' = FALSE
    /\ UNCHANGED << confVars, mic, mainVars, created, engine, stop_event,
                    interrupted, queueVars, consVars, info_started,
                    info_stopping, stderr, pushed_late, end_woke >>

\* ------------------------------------------------- engine (core.start)
\* Lines 44-59, on_success: the notice is printed and the daemon thread
\* print_results is started.  The engine calls it once startup is confirmed.
OnSuccess ==
    /\ alive /\ engine = "starting"
    /\ engine' = "running"
    /\ info_started' = TRUE
    /\ c_pc' = "top"
    /\ UNCHANGED << confVars, mic, mainVars, alive, created, stop_event, interrupted,
                    queueVars, res, ts_out, tl_out, ts_after, tl_after, tl_read,
                    exit_cause, info_stopping, stderr,
                    pushed_late, end_woke >>

\* Lines 61-63, on_failure: the error is printed and the stop event set.
\* The engine calls it if startup fails (never together with on_success).
OnFailure ==
    /\ alive /\ engine = "starting"
    /\ engine' = "failed"
    /\ stderr' = ErrPrint(stderr, "error")
    /\ stop_event' = EventSet(stop_event)
    /\ UNCHANGED << confVars, mic, mainVars, alive, created, interrupted, queueVars,
                    consVars, info_started, info_stopping, pushed_late, end_woke >>

\* Lines 81-83: the three error callbacks only print a diagnostic line.
ErrorTags == {"mic_error", "transcription_error", "translation_error"}

\* An error callback that also treats the error as fatal.
LogErrorStops ==
    /\ alive /\ engine = "running"
    /\ \E tag \in ErrorTags : stderr' = ErrPrint(stderr, tag)
    /\ stop_event' = TRUE
    /\ UNCHANGED << confVars, mic, mainVars, alive, created, engine,
                    interrupted, queueVars, consVars, info_started,
                    info_stopping, pushed_late, end_woke >>

LogError ==
    /\ alive /\ engine = "running"
    /\ \E tag \in ErrorTags : stderr' = ErrPrint(stderr, tag)
    /\ UNCHANGED << confVars, mic, mainVars, alive, created, engine, stop_event,
                    interrupted, queueVars, consVars, info_started,
                    info_stopping,
                    pushed_late, end_woke >>

\* The engine may still push to a queue: it is running, the queue has not
\* received its end marker, and the bound is not reached.
Open(pushed) ==
    /\ Len(pushed) < MaxPush
    /\ \A i \in 1..Len(pushed) : ~IsNone(pushed[i])

\* print_results is suspended in the get() at position pc of the empty queue q.
Suspended(pc, q) == alive /\ c_pc = pc /\ ~CanGet(q)

\* The engine puts a Segment or the end marker on the transcription queue.
PushTs ==
    /\ alive /\ engine = "running" /\ Open(ts_pushed)
    /\ \E item \in Segments \cup {None} :
         /\ tsres_queue' = Put(tsres_queue, item)
         /\ ts_pushed' = Append(ts_pushed, item)
         /\ end_woke' = IF item.kind = "none" /\ Suspended("ts_get", tsres_queue)
                         THEN "ts" ELSE end_woke
    /\ pushed_late' = (pushed_late \/ stop_event)
    /\ UNCHANGED << confVars, mic, mainVars, alive, created, engine, stop_event,
                    interrupted, tlres_queue, tl_pushed, consVars, info_started,
                    info_stopping, stderr >>

\* The engine puts a Segment or the end marker on the translation queue.
PushTl ==
    /\ alive /\ engine = "running" /\ Open(tl_pushed)
    /\ \E item \in Segments \cup {None} :
         /\ tlres_queue' = Put(tlres_queue, item)
         /\ tl_pushed' = Append(tl_pushed, item)
         /\ end_woke' = IF item.kind = "none" /\ Suspended("tl_get", tlres_queue)
                         THEN "tl" ELSE end_woke
    /\ pushed_late' = (pushed_late \/ stop_event)
    /\ UNCHANGED << confVars, mic, mainVars, alive, created, engine, stop_event,
                    interrupted, tsres_queue, ts_pushed, consVars, info_started,
                    info_stopping, stderr >>

\* ------------------------------------------------------ print_results
otherVars == << confVars, mic, mainVars, alive, created, engine, stop_event,
                interrupted, info_started, info_stopping, stderr, pushed_late, end_woke >>

\* 1 when the render happens with the stop event already set.
Late == IF stop_event THEN 1 ELSE 0

\* Line 47: `while not stop_event.is_set()`.
LoopTop ==
    /\ alive /\ c_pc = "top"
    /\ IF LoopCond(stop_event)
       THEN c_pc' = "ts_check" /\ UNCHANGED exit_cause
       ELSE c_pc' = "done" /\ exit_cause' = "token"
    /\ UNCHANGED << otherVars, queueVars, res, ts_out, tl_out, ts_after,
                    tl_after, tl_read >>

\* Line 48: `if tsres_queue:`.
TsCheck ==
    /\ alive /\ c_pc = "ts_check"
    /\ c_pc' = IF Truth(queue_truth, tsres_queue) THEN "ts_get" ELSE "tl_target"
    /\ UNCHANGED << otherVars, queueVars, res, ts_out, tl_out, ts_after,
                    tl_after, tl_read, exit_cause >>

\* Lines 49-51: `res = tsres_queue.get()`, `if res is None: break`.
TsGet ==
    /\ alive /\ c_pc = "ts_get"
    /\ CanGet(tsres_queue)
    /\ res' = GetItem(tsres_queue)
    /\ tsres_queue' = GetRest(tsres_queue)
    /\ IF IsNone(GetItem(tsres_queue))
       THEN c_pc' = "done" /\ exit_cause' = "ts_end"
       ELSE c_pc' = "ts_print" /\ UNCHANGED exit_cause
    /\ UNCHANGED << otherVars, tlres_queue, ts_pushed, tl_pushed, ts_out,
                    tl_out, ts_after, tl_after, tl_read >>

\* Line 52: print(f"[Transcription] {res.done}{res.curr}").
TsPrint ==
    /\ alive /\ c_pc = "ts_print"
    /\ ts_out' = Append(ts_out, Render(res))
    /\ ts_after' = ts_after + Late
    /\ c_pc' = "tl_target"
    /\ UNCHANGED << otherVars, queueVars, res, tl_out, tl_after, tl_read,
                    exit_cause >>

\* Line 53: `if args.target:`.
TlTarget ==
    /\ alive /\ c_pc = "tl_target"
    /\ c_pc' = IF TargetBranch(target) THEN "tl_check" ELSE "top"
    /\ UNCHANGED << otherVars, queueVars, res, ts_out, tl_out, ts_after,
                    tl_after, tl_read, exit_cause >>

\* Line 54: `if tlres_queue:`.
TlCheck ==
    /\ alive /\ c_pc = "tl_check"
    /\ tl_read' = TRUE
    /\ c_pc' = IF Truth(queue_truth, tlres_queue) THEN "tl_get" ELSE "top"
    /\ UNCHANGED << otherVars, queueVars, res, ts_out, tl_out, ts_after,
                    tl_after, exit_cause >>

\* Lines 55-57: `res = tlres_queue.get()`, `if res is None: break`.
TlGet ==
    /\ alive /\ c_pc = "tl_get"
    /\ CanGet(tlres_queue)
    /\ res' = GetItem(tlres_queue)
    /\ tlres_queue' = GetRest(tlres_queue)
    /\ tl_read' = TRUE
    /\ IF IsNone(GetItem(tlres_queue))
       THEN c_pc' = "done" /\ exit_cause' = "tl_end"
       ELSE c_pc' = "tl_print" /\ UNCHANGED exit_cause
    /\ UNCHANGED << otherVars, tsres_queue, ts_pushed, tl_pushed, ts_out,
                    tl_out, ts_after, tl_after >>

\* Line 58: print(f"[Translation]   {res.done}{res.curr}").
TlPrint ==
    /\ alive /\ c_pc = "tl_print"
    /\ tl_out' = Append(tl_out, Render(res))
    /\ tl_after' = tl_after + Late
    /\ c_pc' = "top"
    /\ UNCHANGED << otherVars, queueVars, res, ts_out, ts_after, tl_read,
                    exit_cause >>

\* One step of the print_results thread.
Consumer ==
    LoopTop \/ TsCheck \/ TsGet \/ TsPrint \/ TlTarget \/ TlCheck \/ TlGet \/ TlPrint

\* One step of the main thread's controlling loop.
MainLoop == Poll \/ Wait

Next ==
    \/ MicResolve \/ Start \/ Poll \/ Wait \/ Interrupt \/ ProcessExit
    \/ OnSuccess \/ OnFailure \/ LogError \/ PushTs \/ PushTl
    \/ LoopTop \/ TsCheck \/ TsGet \/ TsPrint
    \/ TlTarget \/ TlCheck \/ TlGet \/ TlPrint

Spec == Init /\ [][Next]_vars

\* The threads are scheduled: a step of print_results or of the controlling
\* loop that stays possible is eventually taken.  Nothing obliges the engine,
\* the operator or the interpreter's exit.
FairSpec == Spec /\ WF_vars(Consumer) /\ WF_vars(MainLoop)

\* ------------------------------------------------ property vocabulary
IsSeg(x) == x.kind = "pair"

\* The Segments of a sequence of queue items, in order.
SegsOf(items) == SelectSeq(items, IsSeg)

\* The lines a sequence of Segments must produce: done followed by curr.
Lines(segs) == [i \in 1..Len(segs) |-> segs[i].done \o segs[i].curr]

\* The end marker was put on the queue with this history.
Ended(pushed) == \E i \in 1..Len(pushed) : pushed[i].kind = "none"

\* The end marker of a queue was put and has been taken out again.
EndConsumed(pushed, q) ==
    Ended(pushed) /\ \A i \in 1..Len(q) : q[i].kind # "none"

\* The line of the Segment the consumer holds between get() and print().
Held(pc) == IF c_pc = pc THEN << res.done \o res.curr >> ELSE << >>

\* print_results has left its loop by itself.
Terminated == c_pc = "done"

\* ---------------------------------------------------------------- C1
\* C1 (as claimed): once a queue has received its end marker and the
\* consumer has terminated with the stop event never set, the lines rendered
\* for that queue are exactly the lines of the Segments pushed on it, in order.
C1_AllRenderedInOrder ==
    (Terminated /\ ~stop_event) =>
        /\ Ended(ts_pushed) => ts_out = Lines(SegsOf(ts_pushed))
        /\ (target /\ Ended(tl_pushed)) => tl_out = Lines(SegsOf(tl_pushed))

\* ---------------------------------------------------------------- C2
\* C2 (as claimed): with a target configured and nothing ever pushed to the
\* translation queue, the consumer is never suspended in tlres_queue.get()
\* while a transcription Segment is waiting and the stop event is unset.
C2_NeverWaitsOnTranslation ==
    ~ ( /\ target /\ ~stop_event /\ alive
        /\ tl_pushed = << >>
        /\ c_pc = "tl_get" /\ ~CanGet(tlres_queue)
        /\ SegsOf(tsres_queue) # << >> )

\* ---------------------------------------------------------------- C3
\* C3 (as claimed): the consumer stops on an end marker only after the end
\* marker of every other active queue: an end marker taken from the
\* translation queue does not end transcription rendering, and vice versa.
C3_OwnEndMarkerOnly ==
    /\ exit_cause = "tl_end" => EndConsumed(ts_pushed, tsres_queue)
    /\ (target /\ exit_cause = "ts_end") => EndConsumed(tl_pushed, tlres_queue)

\* ---------------------------------------------------------------- C4
\* C4 (as claimed): after the stop event is set at most one more render
\* happens, counted over both prints.
C4_AtMostOneLateRender == ts_after + tl_after <= 1

\* C4 (amended): after the stop event is set at most one more render happens
\* on each queue's print (so at most two in all, and only with a target).
C4_AtMostOneLateRenderPerChannel ==
    /\ ts_after <= 1
    /\ tl_after <= 1
    /\ ~target => tl_after = 0

\* C4 witness: the event was set inside an iteration that then rendered on
\* both queues before the loop ended on the event.
C4_Witness ==
    ts_after = 1 /\ tl_after = 1 /\ Terminated /\ exit_cause = "token"

C6_TranslationNeverRead ==
    ~target => (~tl_read /\ tl_out = << >> /\ tlres_queue = tl_pushed)

\* C6 witness: no target, something was pushed to the translation queue and
\* the consumer has completed an iteration that rendered a transcription.
C6_Witness ==
    ~target /\ tl_pushed # << >> /\ ts_out # << >> /\ c_pc = "top"

\* ---------------------------------------------------------------- C7
\* C7 (as claimed): after on_failure (on_success never called) and the return
\* of main(), the stop event is set, no consumer was started, nothing was
\* rendered and the exit status is not zero.
C7_FailureExitsNonZero ==
    (engine = "failed" /\ main_pc = "end") =>
        /\ stop_event
        /\ c_pc = "none" /\ ~info_started
        /\ ts_out = << >> /\ tl_out = << >>
        /\ exit_status = "nonzero"

\* ---------------------------------------------------------------- C8
\* C8 (as claimed): once the consumer has taken the end marker from the
\* transcription queue, the stop event becomes set and main() returns.
C8_EndMarkerStopsRun ==
    (exit_cause = "ts_end") ~> (stop_event /\ main_pc = "end")

\* C8 (amended): the end marker on the transcription queue only ends the
\* consumer loop; unless on_failure fires or the operator interrupts, the
\* stop event stays unset and the controlling loop keeps polling.
C8_EndMarkerEndsConsumerOnly ==
    (exit_cause = "ts_end" /\ engine # "failed" /\ ~interrupted) =>
        /\ Terminated
        /\ ~stop_event
        /\ main_pc \in {"poll", "wait"} /\ exit_status = "none"

\* C8 witness: the consumer ended on the transcription end marker, no interrupt.
C8_Witness ==
    exit_cause = "ts_end" /\ ~interrupted /\ ts_out # << >> /\ main_pc = "wait"

\* ---------------------------------------------------------------- C9
\* C9 (as claimed): at teardown (stop event set, consumer ended or process
\* exited) every Segment pushed before the stop was rendered exactly once.
C9_NothingLostAtTeardown ==
    (stop_event /\ ~pushed_late /\ (Terminated \/ ~alive)) =>
        /\ ts_out = Lines(SegsOf(ts_pushed))
        /\ target => tl_out = Lines(SegsOf(tl_pushed))

\* C9 (amended): nothing is duplicated or reordered and nothing disappears
\* unnoticed: on each queue the lines of the Segments pushed are the lines
\* rendered, then the Segment held by the consumer, then the Segments still
\* queued; Segments still queued at teardown stay unrendered.
C9_RenderedOnceOrStillQueued ==
    /\ Lines(SegsOf(ts_pushed))
         = ts_out \o Held("ts_print") \o Lines(SegsOf(tsres_queue))
    /\ Lines(SegsOf(tl_pushed))
         = tl_out \o Held("tl_print") \o Lines(SegsOf(tlres_queue))

\* C9 witness: teardown by the stop event with one Segment rendered and a
\* Segment pushed before the stop still queued.
C9_Witness ==
    /\ stop_event /\ ~pushed_late /\ Terminated /\ exit_cause = "token"
    /\ ts_out # << >> /\ SegsOf(tsres_queue) # << >>

\* --------------------------------------------------------------- C10
\* C10: the stop event starts unset and no step clears it once it is set.
C10_TokenOneWay == ~stop_event /\ [][stop_event => stop_event']_vars

\* C10 witness: on_failure and the operator interrupt both happened.
C10_Witness == stop_event /\ engine = "failed" /\ interrupted

\* --------------------------------------------------------------- C11
\* C11: a step that sets the stop event is on_failure or the operator
\* interrupt, and a step of an error callback (log_cc_errors, log_ts_errors,
\* log_tl_errors) leaves the stop event, both queues and the consumer alone.
C11_OnlyFailureOrInterruptSets ==
    [][ /\ (~stop_event /\ stop_event') =>
              \/ (engine = "starting" /\ engine' = "failed")
              \/ (~interrupted /\ interrupted')
        /\ LogError => UNCHANGED << stop_event, queueVars, consVars >>
      ]_vars

\* C11 witness: an error callback has printed its line, the engine runs on,
\* and the only stop trigger of the run was the interrupt.
C11_Witness ==
    /\ stderr \in ErrorTags /\ engine = "running" /\ alive
    /\ stop_event /\ interrupted /\ c_pc = "ts_print"

\* --------------------------------------------------------------- C12
\* The controlling loop was entered and main() has left it.
LoopReturned == created /\ main_pc = "end"

\* C12: the controlling loop is never left with the stop event unset; a test
\* of the loop made with the event set leaves the loop; and, the main thread
\* being scheduled, once the event is set the loop is eventually left.
C12_ReturnsIffStopped ==
    /\ [](LoopReturned => stop_event)
    /\ [][(stop_event /\ main_pc = "poll" /\ main_pc' # main_pc)
             => main_pc' = "end"]_vars
    /\ stop_event ~> LoopReturned

\* C12 witness: the loop observed the event set by on_failure and returned.
C12_Witness == LoopReturned /\ stop_event /\ ~interrupted /\ engine = "failed"

\* --------------------------------------------------------------- C13
\* C13: with the engine started successfully, an interrupt has printed the
\* stop notice, set the stop event and ended main() with status zero; and as
\* long as no interrupt came, main() is still in its loop and the process
\* has not exited.
C13_InterruptAfterStart ==
    engine = "running" =>
        IF interrupted
        THEN /\ info_stopping /\ stop_event
             /\ main_pc = "end" /\ exit_status = "zero"
        ELSE /\ alive /\ ~info_stopping
             /\ main_pc \in {"poll", "wait"} /\ exit_status = "none"

\* C13 witness: started, rendered, interrupted, exited with status zero.
C13_Witness ==
    /\ engine = "running" /\ info_started /\ ts_out # << >>
    /\ interrupted /\ ~alive /\ exit_status = "zero"

\* --------------------------------------------------------------- C14
\* C14: after a failed microphone resolution the diagnostic is on stderr,
\* main() has ended with a non-zero status, and nothing else ever happened:
\* no queue, no engine start, no callback, no consumer, no rendered line.
C14_MicFailureExits ==
    mic = "failed" =>
        /\ stderr = "mic_not_found"
        /\ main_pc = "end" /\ exit_status = "nonzero"
        /\ ~created /\ engine = "idle"
        /\ tsres_queue = << >> /\ tlres_queue = << >>
        /\ ts_pushed = << >> /\ tl_pushed = << >>
        /\ c_pc = "none" /\ ~info_started /\ ~info_stopping /\ ~stop_event
        /\ ts_out = << >> /\ tl_out = << >>

\* C14 witness: the resolution failed and the process has exited.
C14_Witness == mic = "failed" /\ ~alive /\ exit_status = "nonzero"

\* --------------------------------------------------------------- C15
\* The consumer stands at the get() of position pc with the end marker at
\* the head of q: its next step takes the end marker.
AtEnd(pc, q) == c_pc = pc /\ CanGet(q) /\ Head(q).kind = "none"

\* C15: once the end marker was put on the queue the consumer is suspended
\* on, the consumer is runnable at that get() or has terminated on that end
\* marker, with exactly the pushed Segments of that queue rendered (no line
\* for the end marker); being scheduled, it terminates unless the process
\* exits first.
C15_EndMarkerReleases ==
    /\ [](end_woke = "ts" =>
            /\ ts_out = Lines(SegsOf(ts_pushed))
            /\ \/ AtEnd("ts_get", tsres_queue)
               \/ (Terminated /\ exit_cause = "ts_end"))
    /\ [](end_woke = "tl" =>
            /\ tl_out = Lines(SegsOf(tl_pushed))
            /\ \/ AtEnd("tl_get", tlres_queue)
               \/ (Terminated /\ exit_cause = "tl_end"))
    /\ (end_woke # "none") ~> (Terminated \/ ~alive)

\* C15 witness: suspended on the transcription queue after one rendered
\* Segment, woken by the end marker, terminated.
C15_Witness ==
    /\ end_woke = "ts" /\ Terminated /\ alive
    /\ Len(ts_out) = 1 /\ ~stop_event

\* --------------------------------------------------------------- C16
\* C16: the step by which the consumer terminates is either the loop test
\* (line 47) made with the stop event set, or a get() that returns the end
\* marker; from no other position does it terminate, so the event is not
\* looked at between the transcription get and the translation get.
C16_TwoExitCauses ==
    [][(c_pc # "done" /\ c_pc' = "done") =>
          \/ (c_pc = "top" /\ stop_event)
          \/ AtEnd("ts_get", tsres_queue)
          \/ AtEnd("tl_get", tlres_queue)
      ]_vars

\* C16 witness: the event was set before the transcription render of an
\* iteration; the consumer still went on to the translation get and
\* terminated there on the end marker, not on the event.
C16_Witness ==
    Terminated /\ exit_cause = "tl_end" /\ ts_after = 1 /\ stop_event

\* --------------------------------------------------------------- C17
IsPrefix(a, b) ==
    /\ Len(a) <= Len(b)
    /\ \A i \in 1..Len(a) : a[i] = b[i]

\* C17: in every state the lines rendered for a queue are a prefix of the
\* lines of the Segments pushed to it.
C17_RenderedIsPrefix ==
    /\ IsPrefix(ts_out, Lines(SegsOf(ts_pushed)))
    /\ IsPrefix(tl_out, Lines(SegsOf(tl_pushed)))

\* C17 witness: a run cut short by the other queue's end marker, with one of
\* two pushed transcription Segments rendered.
C17_Witness ==
    /\ Terminated /\ exit_cause = "tl_end"
    /\ Len(ts_out) = 1 /\ Len(SegsOf(ts_pushed)) = 2
====
